---- MODULE Spec2Model ----
(***************************************************************************)
(* egobot: the extraction orchestrator (internal/ai/extractor.go) and the  *)
(* processing orchestrator (main.go, package processor).                   *)
(*                                                                         *)
(* Go strings are modelled as sequences of one-character strings, so that  *)
(* strings.Index, strings.ToLower, strings.TrimSpace, ... are computed as   *)
(* the library computes them on ASCII text.                                *)
(***************************************************************************)
EXTENDS Integers, Sequences, FiniteSets, TLC

\* ------------------------------------------------------------------ bounds
\* longest tracked-entity list drawn by Init
MaxEntities == 2
\* token budget handed to chunkText, scaled down from the 2000 of the call
\* site so that short documents split into several chunks
ChunkTokens == 3
\* longest list of fetched messages / of PDF URLs per message
MaxMessages == 2
MaxURLs == 2

\* ------------------------------------------------------- strings (Go ASCII)
Upper == <<"A","B","C","D","E","F","G","H","I","J","K","L","M",
           "N","O","P","Q","R","S","T","U","V","W","X","Y","Z">>
Lower == <<"a","b","c","d","e","f","g","h","i","j","k","l","m",
           "n","o","p","q","r","s","t","u","v","w","x","y","z">>

\* unicode.IsSpace on the characters the model uses
WhiteSpace == {" ", "\n", "\t", "\r"}

ToLowerChar(c) ==
    IF \E i \in 1..26 : Upper[i] = c
    THEN Lower[CHOOSE i \in 1..26 : Upper[i] = c]
    ELSE c

\* strings.ToLower
ToLower(s) == [i \in 1..Len(s) |-> ToLowerChar(s[i])]

\* strings.ReplaceAll(s, c, "") for a one-character c
RemoveChar(s, c) == SelectSeq(s, LAMBDA x : x # c)

MatchAt(s, sub, i) == SubSeq(s, i + 1, i + Len(sub)) = sub

\* strings.Contains
Contains(s, sub) == \E i \in 0..(Len(s) - Len(sub)) : MatchAt(s, sub, i)

\* strings.Index: byte offset of the first occurrence, -1 when absent
Index(s, sub) ==
    IF Contains(s, sub)
    THEN CHOOSE i \in 0..(Len(s) - Len(sub)) :
            /\ MatchAt(s, sub, i)
            /\ \A j \in 0..(i - 1) : ~MatchAt(s, sub, j)
    ELSE -1

\* strings.LastIndex
LastIndex(s, sub) ==
    IF Contains(s, sub)
    THEN CHOOSE i \in 0..(Len(s) - Len(sub)) :
            /\ MatchAt(s, sub, i)
            /\ \A j \in (i + 1)..(Len(s) - Len(sub)) : ~MatchAt(s, sub, j)
    ELSE -1

RECURSIVE TrimLeft(_)
TrimLeft(s) ==
    IF s # <<>> /\ s[1] \in WhiteSpace THEN TrimLeft(Tail(s)) ELSE s

RECURSIVE TrimRight(_)
TrimRight(s) ==
    IF s # <<>> /\ s[Len(s)] \in WhiteSpace
    THEN TrimRight(SubSeq(s, 1, Len(s) - 1))
    ELSE s

\* strings.TrimSpace
TrimSpace(s) == TrimRight(TrimLeft(s))

\* strings.Fields: the maximal runs of non-space characters, in order
RECURSIVE FieldsFrom(_, _, _)
FieldsFrom(s, i, cur) ==
    IF i > Len(s)
    THEN (IF cur = <<>> THEN <<>> ELSE <<cur>>)
    ELSE IF s[i] \in WhiteSpace
         THEN (IF cur = <<>> THEN <<>> ELSE <<cur>>) \o FieldsFrom(s, i + 1, <<>>)
         ELSE FieldsFrom(s, i + 1, Append(cur, s[i]))

Fields(s) == FieldsFrom(s, 1, <<>>)

Range(f) == {f[i] : i \in DOMAIN f}

Min(a, b) == IF a < b THEN a ELSE b

\* ------------------------------------------------------------ entity matcher
\* mutant: the comparisons are made without lower-casing
findEntityInTextCaseSensitive(text, entity) ==
    LET entityParts == Fields(entity)
        cleanText == RemoveChar(RemoveChar(RemoveChar(text, " "), "-"), ".")
        cleanEntity == RemoveChar(RemoveChar(RemoveChar(entity, " "), "-"), ".")
        foundWords == Cardinality({i \in 1..Len(entityParts) :
                          /\ Len(entityParts[i]) > 2
                          /\ Contains(text, entityParts[i])})
    IN  \/ Contains(RemoveChar(text, " "), RemoveChar(entity, " "))
        \/ /\ Len(entityParts) > 1
           /\ \A i \in 1..Len(entityParts) : Contains(text, entityParts[i])
        \/ Contains(cleanText, cleanEntity)
        \/ /\ Len(entity) > 5
           /\ Len(entityParts) >= 2
           /\ foundWords >= 2

\* mutant: the direct match only, and never for an empty entity
findEntityInTextDirect(text, entity) ==
    /\ RemoveChar(entity, " ") # <<>>
    /\ Contains(ToLower(RemoveChar(text, " ")), ToLower(RemoveChar(entity, " ")))

\* findEntityInText: four strategies, the first that succeeds wins
findEntityInText(text, entity) ==
    LET normalizedText == ToLower(RemoveChar(text, " "))
        normalizedEntity == ToLower(RemoveChar(entity, " "))
        entityParts == Fields(entity)
        cleanText == RemoveChar(RemoveChar(RemoveChar(text, " "), "-"), ".")
        cleanEntity == RemoveChar(RemoveChar(RemoveChar(entity, " "), "-"), ".")
        foundWords == Cardinality({i \in 1..Len(entityParts) :
                          /\ Len(entityParts[i]) > 2
                          /\ Contains(ToLower(text), ToLower(entityParts[i]))})
    IN  \/ Contains(normalizedText, normalizedEntity)
        \/ /\ Len(entityParts) > 1
           /\ \A i \in 1..Len(entityParts) :
                  Contains(ToLower(text), ToLower(entityParts[i]))
        \/ Contains(ToLower(cleanText), ToLower(cleanEntity))
        \/ /\ Len(entity) > 5
           /\ Len(entityParts) >= 2
           /\ foundWords >= 2

\* ------------------------------------------------------------------ results
\* the canonical value of an entity the answer does not mention
NoInformationFound ==
    <<"N","o"," ","i","n","f","o","r","m","a","t","i","o","n"," ",
      "f","o","u","n","d",".">>

\* ExtractionResult: a Go map, here a function on the keys set so far
EmptyResult == [k \in {} |-> <<>>]

MapSet(m, k, v) == [x \in (DOMAIN m) \cup {k} |-> IF x = k THEN v ELSE m[x]]

\* whether the answer mentions the entity (case-insensitive substring)
Mentions(answer, entity) == Index(ToLower(answer), ToLower(entity)) # -1

\* the entity's paragraph of the answer: from its first occurrence up to
\* the next blank line (or the end), trimmed
EntityInfo(answer, entity) ==
    LET idx == Index(ToLower(answer), ToLower(entity))
        rest == SubSeq(answer, idx + 1, Len(answer))
        e == Index(rest, <<"\n", "\n">>)
        end == IF e = -1 THEN Len(rest) ELSE e
    IN  TrimSpace(SubSeq(rest, 1, end))

\* lines 190-207 (URL) and 836-852 (File): one answer, every entity is set
RECURSIVE ParseResults(_, _, _, _)
ParseResults(m, answer, ents, i) ==
    IF i > Len(ents)
    THEN m
    ELSE ParseResults(
            MapSet(m, ents[i],
                   IF Mentions(answer, ents[i])
                   THEN EntityInfo(answer, ents[i])
                   ELSE NoInformationFound),
            answer, ents, i + 1)

\* lines 998-1014 (chunked): append to the existing value or create it
RECURSIVE MergeChunk(_, _, _, _)
MergeChunk(m, answer, ents, i) ==
    IF i > Len(ents)
    THEN m
    ELSE MergeChunk(
            IF Mentions(answer, ents[i])
            THEN IF ents[i] \in DOMAIN m /\ m[ents[i]] # NoInformationFound
                 THEN MapSet(m, ents[i],
                             m[ents[i]] \o <<"\n", "\n">> \o EntityInfo(answer, ents[i]))
                 ELSE MapSet(m, ents[i], EntityInfo(answer, ents[i]))
            ELSE m,
            answer, ents, i + 1)

\* mutant: the fill-in loop left out
FillMissingSkipped(m, ents) == m

\* lines 1017-1022: entities no chunk set get the canonical value
FillMissing(m, ents) ==
    [k \in (DOMAIN m) \cup Range(ents) |->
        IF k \in DOMAIN m THEN m[k] ELSE NoInformationFound]

\* lines 742-745: the early-termination result
EarlyResult(ents) == [k \in Range(ents) |-> NoInformationFound]

\* mutant: the match test of the presence loop inverted
EntitiesFoundInverted(text, ents) ==
    \E i \in 1..Len(ents) : ~findEntityInText(text, ents[i])

\* lines 728-737: does any tracked entity match the document
EntitiesFound(text, ents) ==
    \E i \in 1..Len(ents) : findEntityInText(text, ents[i])

\* ------------------------------------------------------------------ chunker
\* chunkText: pieces of at most maxTokens*4 characters, cut back to the last
\* period when it lies in the last quarter of the piece
RECURSIVE ChunkLoop(_, _)
ChunkLoop(text, maxChars) ==
    IF Len(text) = 0
    THEN <<>>
    ELSE LET chunkSize == Min(maxChars, Len(text))
             whole == SubSeq(text, 1, chunkSize)
             lastPeriod == LastIndex(whole, <<".">>)
             chunk == IF lastPeriod > (chunkSize * 3) \div 4
                      THEN SubSeq(whole, 1, lastPeriod + 1)
                      ELSE whole
         IN  <<chunk>> \o ChunkLoop(SubSeq(text, Len(chunk) + 1, Len(text)), maxChars)

chunkText(text, maxTokens) ==
    LET maxChars == maxTokens * 4
    IN  IF Len(text) <= maxChars THEN <<text>> ELSE ChunkLoop(text, maxChars)

\* ------------------------------------------------------- relevance filters
\* character limits of the filters, scaled down from the 1000, 500 and 8000
\* of the source (their order is kept) so that short documents reach them
FilterFallbackChars == 6
UltraFallbackChars == 4
UltraThresholdChars == 8

\* strings.Split(s, sep) for a non-empty sep
RECURSIVE Split(_, _)
Split(s, sep) ==
    LET idx == Index(s, sep)
    IN  IF idx = -1
        THEN <<s>>
        ELSE <<SubSeq(s, 1, idx)>>
                \o Split(SubSeq(s, idx + Len(sep) + 1, Len(s)), sep)

\* strings.Join(parts, sep)
RECURSIVE Join(_, _)
Join(parts, sep) ==
    IF Len(parts) = 0 THEN <<>>
    ELSE IF Len(parts) = 1 THEN parts[1]
    ELSE parts[1] \o sep \o Join(Tail(parts), sep)

\* the segment separators: sentences and paragraphs
SentenceSep == <<".", " ">>
ParagraphSep == <<"\n", "\n">>

\* businessKeywords of preFilterContent; the two bytes of the letter o-slash
\* are the elements "0xC3" and "0xB8"
businessKeywordsParagraph ==
    << <<"f","r","i","v","i","l","l","i","g"," ","l","i","k","v","i","d","a","t","i","o","n">>,
       <<"d","0xC3","0xB8","d","s","b","o">>,
       <<"k","o","n","k","u","r","s">>,
       <<"t","v","a","n","g","s","a","u","k","t","i","o","n">>,
       <<"f","u","s","i","o","n">> >>

\* businessKeywords of the sentence-level filters
businessKeywords ==
    << <<"f","r","i","v","i","l","l","i","g"," ","l","i","k","v","i","d","a","t","i","o","n">>,
       <<"d","0xC3","0xB8","d","s","b","o">>,
       <<"k","o","n","k","u","r","s">>,
       <<"t","v","a","n","g","s","a","u","k","t","i","o","n">>,
       <<"f","u","s","i","o","n">>,
       <<"s","k","i","f","t","e","r","e","t">>,
       <<"s","a","g","s","n","u","m","m","e","r">>,
       <<"c","p","r">>,
       <<"c","v","r">>,
       <<"a","d","r","e","s","s","e">>,
       <<"d","0xC3","0xB8","d","s","d","a","t","o">> >>

\* the entity test of a segment: findEntityInText, or (preFilterContent,
\* aggressivePreFilterContent) a lower-cased substring test
\* mutant: no sentence is kept for an entity
EntityHitNever(matcher, segment, ents) == FALSE

EntityHit(matcher, segment, ents) ==
    \E i \in 1..Len(ents) :
        IF matcher
        THEN findEntityInText(segment, ents[i])
        ELSE Contains(ToLower(segment), ToLower(ents[i]))

KeywordHit(segment, keywords) ==
    \E i \in 1..Len(keywords) : Contains(ToLower(segment), keywords[i])

\* the loop over the segments: a segment is appended when an entity hits it,
\* and appended (again) when a keyword hits it
RECURSIVE RelevantSegments(_, _, _, _, _)
RelevantSegments(segments, i, matcher, ents, keywords) ==
    IF i > Len(segments)
    THEN <<>>
    ELSE (IF EntityHit(matcher, segments[i], ents) THEN <<segments[i]>> ELSE <<>>)
            \o (IF KeywordHit(segments[i], keywords) THEN <<segments[i]>> ELSE <<>>)
            \o RelevantSegments(segments, i + 1, matcher, ents, keywords)

\* mutant: nothing is returned when no segment is kept
PrefixNone(text, n) == <<>>

\* if len(text) > n { return text[:n] }; return text
Prefix(text, n) == IF Len(text) > n THEN SubSeq(text, 1, n) ELSE text

\* preFilterContent: paragraph level, the original text when nothing is kept
preFilterContent(text, ents) ==
    LET relevantParagraphs ==
            RelevantSegments(Split(text, ParagraphSep), 1, FALSE, ents,
                             businessKeywordsParagraph)
    IN  IF Len(relevantParagraphs) > 0
        THEN Join(relevantParagraphs, ParagraphSep)
        ELSE text

\* aggressivePreFilterContent: sentence level, text[:1000] + "..." when
\* nothing is kept and the text is longer
aggressivePreFilterContent(text, ents) ==
    LET relevantSentences ==
            RelevantSegments(Split(text, SentenceSep), 1, FALSE, ents,
                             businessKeywords)
    IN  IF Len(relevantSentences) > 0
        THEN Join(relevantSentences, SentenceSep)
        ELSE IF Len(text) > FilterFallbackChars
             THEN SubSeq(text, 1, FilterFallbackChars) \o <<".", ".", ".">>
             ELSE text

\* extractRelevantSections: sentence level with findEntityInText
extractRelevantSections(text, ents) ==
    LET relevantSentences ==
            RelevantSegments(Split(text, SentenceSep), 1, TRUE, ents,
                             businessKeywords)
    IN  IF Len(relevantSentences) > 0
        THEN Join(relevantSentences, SentenceSep)
        ELSE Prefix(text, FilterFallbackChars)

\* mutant: the ultra filter falls back to the whole text
ultraFallbackWhole(text) == text

\* the fallback of extractUltraRelevantContent: the first 500 characters
ultraFallback(text) == Prefix(text, UltraFallbackChars)

\* extractUltraRelevantContent: sentences an entity matches, no keywords
extractUltraRelevantContent(text, ents) ==
    LET ultraRelevantSentences ==
            RelevantSegments(Split(text, SentenceSep), 1, TRUE, ents, <<>>)
    IN  IF Len(ultraRelevantSentences) > 0
        THEN Join(ultraRelevantSentences, SentenceSep)
        ELSE ultraFallback(text)

\* ExtractEntitiesFromPDFFile, lines 749-759: the document text of the prompt
PromptText(text, ents) ==
    LET filtered == extractRelevantSections(text, ents)
    IN  IF Len(filtered) > UltraThresholdChars
        THEN extractUltraRelevantContent(filtered, ents)
        ELSE filtered

\* smartChunkText ------------------------------------------------------------
\* mutant: the text that fits the budget is returned trimmed
WholeTextTrimmed(text) == <<TrimSpace(text)>>

\* return []string{text}: a text within the budget is one chunk, as given
WholeText(text) == <<text>>

\* mutant: the limit is tested on the buffer alone, after the line was added
ExceedsLimitLate(currentLength, lineLength, maxChars) ==
    currentLength > maxChars

\* if currentLength+lineLength > maxChars && currentLength > 0
ExceedsLimit(currentLength, lineLength, maxChars) ==
    currentLength + lineLength > maxChars /\ currentLength > 0

\* mutant: the buffer is not emptied after a chunk was taken from it
ResetSkipped(currentChunk) == currentChunk

\* currentChunk.Reset()
Reset(currentChunk) == <<>>

\* chunk := strings.TrimSpace(currentChunk.String()); appended unless empty
TakeChunk(currentChunk) ==
    LET chunk == TrimSpace(currentChunk)
    IN  IF chunk # <<>> THEN <<chunk>> ELSE <<>>

\* the loop over the lines and the last chunk after it
RECURSIVE SmartChunkLoop(_, _, _, _, _)
SmartChunkLoop(lines, i, currentChunk, currentLength, maxChars) ==
    IF i > Len(lines)
    THEN IF Len(currentChunk) > 0 THEN TakeChunk(currentChunk) ELSE <<>>
    ELSE LET lineLength == Len(lines[i])
             flush == ExceedsLimit(currentLength, lineLength, maxChars)
             buffer == IF flush THEN Reset(currentChunk) ELSE currentChunk
             length == IF flush THEN 0 ELSE currentLength
         IN  (IF flush THEN TakeChunk(currentChunk) ELSE <<>>)
                \o SmartChunkLoop(lines, i + 1,
                                  buffer \o lines[i] \o <<"\n">>,
                                  length + lineLength + 1, maxChars)

smartChunkText(text, maxTokens) ==
    LET maxChars == maxTokens * 3
    IN  IF Len(TrimSpace(text)) = 0
        THEN <<>>
        ELSE IF Len(text) <= maxChars
             THEN WholeText(text)
             ELSE SmartChunkLoop(Split(text, <<"\n">>), 1, <<>>, 0, maxChars)

\* ------------------------------------------------------------- retry policy
\* mutant: one attempt more
maxRetriesFour == 3 + 1

\* maxRetries := 3, the attempts of one extraction
maxRetries == 3
\* delay := 1 * time.Second
initialDelay == 1
\* the cap: 60 * time.Second
maxDelay == 60

\* delay = delay * 2, capped
NextDelay(d) == Min(d * 2, maxDelay)

\* mutant: the last retry is given up one attempt early
CanRetryOneLess(a) == a < 3 - 2

\* attempt < maxRetries-1: another attempt is left
CanRetry(a) == a < maxRetries - 1

\* mutant: every API error is taken for a rate limit
IsRateLimitErrorAnyAPI(kind) == kind \in {"rate_limit", "provider"}

\* File, line 812: the error text carries "429", "rate limit" or
\* "Too Many Requests"
IsRateLimitError(kind) == kind = "rate_limit"

\* ------------------------------------------------------------------- inputs
Rep(c, n) == [i \in 1..n |-> c]

\* tracked entities: a plain name, an empty entry (ENTITIES_TO_TRACK="a,,b"),
\* a name that starts the canonical value, a formatted identifier, and an
\* entry of punctuation only
EntityNames ==
    { <<"a","b">>, <<>>, <<"N","o">>, <<"c","-","d">>, <<"."," ">> }

\* entities []string: any list, repetitions included (config.go does not
\* trim, drop or deduplicate entries)
EntityLists == UNION { [1..n -> EntityNames] : n \in 0..MaxEntities }

\* documents returned by pdf.ExtractText for the single-call entry point
FileDocs ==
    { <<"A","b"," ","c","d">>,
      <<"x","y">>,
      <<"a"," ","b","."," ","n","o">>,
      <<>>,
      \* an entity written across a sentence boundary
      <<"a","."," ","b","x","x","x","x">>,
      \* a sentence an entity and a keyword hit
      <<"a","b"," ","c","v","r","."," ","x","y">>,
      \* an entity in the last sentence only
      <<"x","y","x","y","."," ","a","b">> }

\* documents for the chunked entry point: one chunk, two chunks, three chunks
ChunkDocs ==
    { <<"x","y">>,
      Rep("a", 10) \o <<".">> \o Rep("b", 2),
      Rep("a", 10) \o <<".">> \o Rep("b", 19) }

\* answers of the model provider
Answers ==
    { <<"a","b",":"," ","x","\n","\n","N","o"," ","y">>,
      <<"A","B"," ","z">>,
      NoInformationFound,
      <<>>,
      <<" ","a","b"," ","\n","\n","q">> }

\* what one provider call can end in, per entry point
\*   URL: client.Do error (transport, or the context's), body read error,
\*        HTTP 429, other non-200 status, JSON that does not parse, an error
\*        field, a status other than completed, a malformed output, an answer
URLKinds ==
    { "transport", "cancelled", "read_error", "rate_limit", "http_error",
      "bad_json", "api_error", "not_completed", "bad_output", "ok" }
\*   Chat completion: an error whose text carries a rate-limit marker, a
\*        network error, any other API error (authentication, 5xx, malformed
\*        body), the context's error, a response without choices, an answer
ChatKinds ==
    { "rate_limit", "transport", "provider", "cancelled", "no_choices", "ok" }

Outcomes(kinds) ==
    { [kind |-> k, answer |-> <<>>] : k \in kinds \ {"ok"} }
        \cup { [kind |-> "ok", answer |-> a] : a \in Answers }

\* -------------------------------------------------------------------- state
VARIABLES
    entry,        \* which extraction function runs: "URL", "File", "Chunked"
    entities,     \* entities []string
    apiKey,       \* os.Getenv("OPENAI_API_KEY") # ""
    pdfText,      \* the text pdf.ExtractText returned
    textToProcess,\* the document text placed in the prompt (File)
    chunks,       \* chunks := chunkText(pdfText, 2000)
    chunkIdx,     \* i+1 of the chunk loop
    pc,           \* "idle", "calling", "sleeping", "done"
    attempt,      \* the retry loop's counter
    delay,        \* the retry loop's delay, in seconds
    allResults,   \* the ExtractionResult under construction / returned
    retErr,       \* the error returned, "nil" for none
    ctxDone,      \* the caller's context is cancelled or past its deadline
    cancelledIn,  \* history: pc when the context was cancelled, "" if never
    calls,        \* history: provider calls issued
    sleeps,       \* history: durations slept by time.Sleep, in order
    outcomes,     \* history: how each finished provider call ended
    answers,      \* history: the answers received, in order
    bodies        \* history (URL): the body each client.Do had to send,
                  \* "payload" or "empty"

\* the processing orchestrator (package processor)
VARIABLES
    mailbox,          \* what fetcher.FetchPDFEmails would deliver
    ppc,              \* ProcessEmails: "idle", "extracting", "sending", "done"
                      \* ("off": not called yet by ProcessWithRetry)
    emailMessages,    \* emailMessages returned by the fetch
    analysisResults,  \* var analysisResults []email.AnalysisResult
    procErr,          \* the error ProcessEmails returned, "nil" for none
    fetchLog,         \* history: FetchPDFEmails calls, "ok" or "error"
    extractLog,       \* history: extractor calls, [url, err]
    sendLog           \* history: SendAnalysisResults calls, [results, ok]

\* ProcessWithRetry (package processor)
VARIABLES
    cfgMaxRetries,    \* p.config.MaxRetries
    rpc,              \* "idle", "attempt", "sleeping", "done"
    outerAttempt,     \* the loop variable attempt
    lastErr,          \* var lastErr error, "nil" for none
    retryErr,         \* the error ProcessWithRetry returned, "nil" for none
    attemptLog,       \* history: what each ProcessEmails call returned
    notifyLog,        \* history: SendErrorNotification calls
    retrySleeps       \* history: time.Sleep(p.config.RetryDelay) calls

\* the text functions of package ai, applied to an input on their own
VARIABLES
    inText,           \* text string
    inEntities,       \* entities []string
    inMaxTokens,      \* maxTokens int
    applied,          \* the function applied to the input, "" for none yet
    output            \* what it returned

\* the scheduler (package scheduler)
VARIABLES
    spc,              \* Scheduler: "new", "started", "failed", "stopped"
    now,              \* the clock, in (scaled) minutes
    jobs              \* the runs of runProcessingJob, one per cron tick

varsX ==
    << entry, entities, apiKey, pdfText, textToProcess, chunks, chunkIdx, pc,
       attempt, delay, allResults, retErr, ctxDone, cancelledIn, calls, sleeps,
       outcomes, answers, bodies >>

varsP ==
    << mailbox, ppc, emailMessages, analysisResults, procErr, fetchLog,
       extractLog, sendLog >>

varsR ==
    << cfgMaxRetries, rpc, outerAttempt, lastErr, retryErr, attemptLog,
       notifyLog, retrySleeps >>

varsT == << inText, inEntities, inMaxTokens, applied, output >>

varsS == << spc, now, jobs >>

vars == << varsX, varsP, varsR, varsT, varsS >>

\* the scheduler not created
IdleS ==
    /\ spc = "new"
    /\ now = 0
    /\ jobs = <<>>

\* ProcessWithRetry not called
IdleR ==
    /\ cfgMaxRetries = 0
    /\ rpc = "idle"
    /\ outerAttempt = 0
    /\ lastErr = "nil"
    /\ retryErr = "nil"
    /\ attemptLog = <<>>
    /\ notifyLog = <<>>
    /\ retrySleeps = 0

\* no text function applied on its own
IdleT ==
    /\ inText = <<>>
    /\ inEntities = <<>>
    /\ inMaxTokens = 0
    /\ applied = ""
    /\ output = <<>>

\* the processing orchestrator at rest
IdleP ==
    /\ mailbox = <<>>
    /\ ppc = "idle"
    /\ emailMessages = <<>>
    /\ analysisResults = <<>>
    /\ procErr = "nil"
    /\ fetchLog = <<>>
    /\ extractLog = <<>>
    /\ sendLog = <<>>

IdleX(e, ents) ==
    /\ entry = e
    /\ entities = ents
    /\ apiKey = FALSE
    /\ pdfText = <<>>
    /\ textToProcess = <<>>
    /\ chunks = <<>>
    /\ chunkIdx = 0
    /\ pc = "idle"
    /\ attempt = 0
    /\ delay = 0
    /\ allResults = EmptyResult
    /\ retErr = "nil"
    /\ ctxDone = FALSE
    /\ cancelledIn = ""
    /\ calls = 0
    /\ sleeps = <<>>
    /\ outcomes = <<>>
    /\ answers = <<>>
    /\ bodies = <<>>

Init ==
    /\ \E e \in {"URL", "File", "Chunked"}, ents \in EntityLists : IdleX(e, ents)
    /\ IdleP
    /\ IdleR
    /\ IdleT
    /\ IdleS

\* return ..., err
Fail(err) ==
    /\ pc' = "done"
    /\ retErr' = err
    /\ allResults' = EmptyResult

\* return allResults, nil
Succeed(m) ==
    /\ pc' = "done"
    /\ retErr' = "nil"
    /\ allResults' = m

\* the first iteration of the retry loop: attempt = 0, no sleep, the call
FirstCall ==
    /\ pc' = "calling"
    /\ attempt' = 0
    /\ delay' = initialDelay
    /\ calls' = calls + 1
    /\ UNCHANGED <<allResults, retErr>>

\* ExtractEntitiesFromPDFURL, lines 26-104: up to the first client.Do
StartURL ==
    /\ pc = "idle"
    /\ entry = "URL"
    /\ \E key \in BOOLEAN :
          /\ apiKey' = key
          /\ IF ~key
             THEN /\ Fail("OPENAI_API_KEY environment variable not set")
                  /\ UNCHANGED <<attempt, delay, calls, bodies>>
             ELSE /\ FirstCall
                  /\ bodies' = Append(bodies, "payload")
    /\ UNCHANGED <<entry, entities, pdfText, textToProcess, chunks, chunkIdx,
                   ctxDone, cancelledIn, sleeps, outcomes, answers>>
    /\ UNCHANGED <<varsP, varsR, varsT, varsS>>

\* ExtractEntitiesFromPDFFile, lines 709-806: the early-termination check,
\* the filtering of the document text for the prompt (lines 749-759) and the
\* first CreateChatCompletion
StartFile ==
    /\ pc = "idle"
    /\ entry = "File"
    /\ \E key \in BOOLEAN, readable \in BOOLEAN, text \in FileDocs :
          /\ apiKey' = key
          /\ IF ~key
             THEN /\ Fail("OPENAI_API_KEY environment variable not set")
                  /\ UNCHANGED <<pdfText, textToProcess, attempt, delay,
                                 calls>>
             ELSE IF ~readable
             THEN /\ Fail("failed to extract text from PDF")
                  /\ UNCHANGED <<pdfText, textToProcess, attempt, delay,
                                 calls>>
             ELSE /\ pdfText' = text
                  /\ IF ~EntitiesFound(text, entities)
                     THEN /\ Succeed(EarlyResult(entities))
                          /\ UNCHANGED <<textToProcess, attempt, delay, calls>>
                     ELSE /\ textToProcess' = PromptText(text, entities)
                          /\ FirstCall
    /\ UNCHANGED <<entry, entities, chunks, chunkIdx, ctxDone, cancelledIn,
                   sleeps, outcomes, answers, bodies>>
    /\ UNCHANGED <<varsP, varsR, varsT, varsS>>

\* the retryable branch: double the delay and go round the loop (attempt++,
\* the loop guard, then the next iteration sleeps first), or give up on the
\* last attempt
RetryOrFail(err) ==
    IF CanRetry(attempt)
    THEN /\ delay' = NextDelay(delay)
         /\ attempt' = attempt + 1
         /\ IF attempt + 1 < maxRetries
            THEN /\ pc' = "sleeping"
                 /\ UNCHANGED <<allResults, retErr>>
            ELSE Fail("failed to process document after 3 attempts")
    ELSE /\ Fail(err)
         /\ UNCHANGED <<attempt, delay>>

\* a call that is in flight when the context is done ends in the context's
\* error; otherwise it ends in anything but that
Possible(o, ctxKinds) ==
    IF ctxDone THEN o.kind \in ctxKinds ELSE o.kind # "cancelled"

\* how a request that carried no body can end: the failures that do not
\* depend on the provider having read the payload
EmptyBodyKinds ==
    { "transport", "cancelled", "read_error", "rate_limit", "http_error" }

\* ExtractEntitiesFromPDFURL, lines 105-213: client.Do returns
ReturnURL ==
    /\ pc = "calling"
    /\ entry = "URL"
    /\ \E o \in Outcomes(URLKinds) :
          /\ Possible(o, {"cancelled", "read_error"})
          /\ bodies[Len(bodies)] = "empty" => o.kind \in EmptyBodyKinds
          /\ outcomes' = Append(outcomes, o.kind)
          /\ CASE o.kind \in {"transport", "cancelled"} ->
                    /\ RetryOrFail("failed to make HTTP request")
                    /\ UNCHANGED answers
               [] o.kind = "read_error" ->
                    /\ Fail("failed to read response body")
                    /\ UNCHANGED <<attempt, delay, answers>>
               [] o.kind = "rate_limit" ->
                    /\ RetryOrFail("rate limit exceeded after 3 retries")
                    /\ UNCHANGED answers
               [] o.kind = "http_error" ->
                    /\ Fail("OpenAI API error")
                    /\ UNCHANGED <<attempt, delay, answers>>
               [] o.kind = "bad_json" ->
                    /\ Fail("failed to parse response")
                    /\ UNCHANGED <<attempt, delay, answers>>
               [] o.kind = "api_error" ->
                    /\ Fail("OpenAI API returned error")
                    /\ UNCHANGED <<attempt, delay, answers>>
               [] o.kind = "not_completed" ->
                    /\ Fail("response not completed")
                    /\ UNCHANGED <<attempt, delay, answers>>
               [] o.kind = "bad_output" ->
                    /\ Fail("no output in response")
                    /\ UNCHANGED <<attempt, delay, answers>>
               [] o.kind = "ok" ->
                    /\ Succeed(ParseResults(EmptyResult, o.answer, entities, 1))
                    /\ answers' = Append(answers, o.answer)
                    /\ UNCHANGED <<attempt, delay>>
    /\ UNCHANGED <<entry, entities, apiKey, pdfText, textToProcess, chunks,
                   chunkIdx, ctxDone, cancelledIn, calls, sleeps, bodies>>
    /\ UNCHANGED <<varsP, varsR, varsT, varsS>>

\* ExtractEntitiesFromPDFFile, lines 797-855: CreateChatCompletion returns
ReturnFile ==
    /\ pc = "calling"
    /\ entry = "File"
    /\ \E o \in Outcomes(ChatKinds) :
          /\ Possible(o, {"cancelled"})
          /\ outcomes' = Append(outcomes, o.kind)
          /\ CASE o.kind \in {"rate_limit", "transport", "provider", "cancelled"} ->
                    /\ IF IsRateLimitError(o.kind)
                       THEN RetryOrFail("rate limit exceeded after 3 retries")
                       ELSE /\ Fail("failed to get chat completion")
                            /\ UNCHANGED <<attempt, delay>>
                    /\ UNCHANGED answers
               [] o.kind = "no_choices" ->
                    /\ Fail("no response from OpenAI")
                    /\ UNCHANGED <<attempt, delay, answers>>
               [] o.kind = "ok" ->
                    /\ Succeed(ParseResults(allResults, o.answer, entities, 1))
                    /\ answers' = Append(answers, o.answer)
                    /\ UNCHANGED <<attempt, delay>>
    /\ UNCHANGED <<entry, entities, apiKey, pdfText, textToProcess, chunks,
                   chunkIdx, ctxDone, cancelledIn, calls, sleeps, bodies>>
    /\ UNCHANGED <<varsP, varsR, varsT, varsS>>

\* ExtractEntitiesFromPDFURL, lines 85 and 105: req is built once, before the
\* loop, around a bytes.Buffer, and every iteration hands the same req to
\* client.Do. The first Do reads the buffer to its end; what a later Do has
\* to send depends on the transport: the payload again where it rewinds the
\* body through req.GetBody, nothing where it reads the drained buffer.
RetryBodies == {"payload", "empty"}

\* lines 99-105 and 792-797: time.Sleep(delay) runs to its end, then the next
\* call is issued; the sleep does not watch the context
SleepDone ==
    /\ pc = "sleeping"
    /\ sleeps' = Append(sleeps, delay)
    /\ calls' = calls + 1
    /\ pc' = "calling"
    /\ IF entry = "URL"
       THEN \E b \in RetryBodies : bodies' = Append(bodies, b)
       ELSE UNCHANGED bodies
    /\ UNCHANGED <<entry, entities, apiKey, pdfText, textToProcess, chunks,
                   chunkIdx, attempt, delay, allResults, retErr, ctxDone,
                   cancelledIn, outcomes, answers>>
    /\ UNCHANGED <<varsP, varsR, varsT, varsS>>

\* the caller cancels the context, or its deadline passes
Cancel ==
    /\ pc # "done"
    /\ ~ctxDone
    /\ ctxDone' = TRUE
    /\ cancelledIn' = pc
    /\ UNCHANGED <<entry, entities, apiKey, pdfText, textToProcess, chunks,
                   chunkIdx, pc, attempt, delay, allResults, retErr, calls,
                   sleeps, outcomes, answers, bodies>>
    /\ UNCHANGED <<varsP, varsR, varsT, varsS>>

\* the chunk loop moves on: the next chunk's call, or the final fill-in and
\* return after the last chunk
NextChunk(m) ==
    IF chunkIdx < Len(chunks)
    THEN /\ chunkIdx' = chunkIdx + 1
         /\ calls' = calls + 1
         /\ pc' = "calling"
         /\ allResults' = m
         /\ UNCHANGED retErr
    ELSE /\ Succeed(FillMissing(m, entities))
         /\ UNCHANGED <<chunkIdx, calls>>

\* ExtractEntitiesFromPDFFile (chunked), lines 940-983: up to the first
\* chunk's CreateChatCompletion
StartChunked ==
    /\ pc = "idle"
    /\ entry = "Chunked"
    /\ \E key \in BOOLEAN, readable \in BOOLEAN, text \in ChunkDocs :
          /\ apiKey' = key
          /\ IF ~key
             THEN /\ Fail("OPENAI_API_KEY environment variable not set")
                  /\ UNCHANGED <<pdfText, textToProcess, chunks, chunkIdx,
                                 calls>>
             ELSE IF ~readable
             THEN /\ Fail("failed to extract text from PDF")
                  /\ UNCHANGED <<pdfText, textToProcess, chunks, chunkIdx,
                                 calls>>
             ELSE /\ pdfText' = text
                  /\ chunks' = chunkText(text, ChunkTokens)
                  /\ UNCHANGED textToProcess
                  /\ chunkIdx' = 1
                  /\ calls' = calls + 1
                  /\ pc' = "calling"
                  /\ UNCHANGED <<allResults, retErr>>
    /\ UNCHANGED <<entry, entities, attempt, delay, ctxDone, cancelledIn,
                   sleeps, outcomes, answers, bodies>>
    /\ UNCHANGED <<varsP, varsR, varsT, varsS>>

\* ExtractEntitiesFromPDFFile (chunked), lines 984-1025: a chunk's call
\* returns; any error ends the extraction, a response without choices skips
\* the chunk, an answer is merged
ReturnChunked ==
    /\ pc = "calling"
    /\ entry = "Chunked"
    /\ \E o \in Outcomes(ChatKinds) :
          /\ Possible(o, {"cancelled"})
          /\ outcomes' = Append(outcomes, o.kind)
          /\ CASE o.kind \in {"rate_limit", "transport", "provider", "cancelled"} ->
                    /\ Fail("failed to get chat completion for chunk")
                    /\ UNCHANGED <<chunkIdx, calls, answers>>
               [] o.kind = "no_choices" ->
                    /\ NextChunk(allResults)
                    /\ UNCHANGED answers
               [] o.kind = "ok" ->
                    /\ NextChunk(MergeChunk(allResults, o.answer, entities, 1))
                    /\ answers' = Append(answers, o.answer)
    /\ UNCHANGED <<entry, entities, apiKey, pdfText, textToProcess, chunks,
                   attempt, delay, ctxDone, cancelledIn, sleeps, bodies>>
    /\ UNCHANGED <<varsP, varsR, varsT, varsS>>

Next ==
    \/ StartURL
    \/ StartFile
    \/ StartChunked
    \/ ReturnURL
    \/ ReturnFile
    \/ ReturnChunked
    \/ SleepDone
    \/ Cancel

Spec == Init /\ [][Next]_vars

TypeOK ==
    /\ pc \in {"idle", "calling", "sleeping", "done"}
    /\ attempt \in 0..maxRetries
    /\ calls \in Nat
    /\ DOMAIN allResults \subseteq Range(entities)

\* ------------------------------------------------- processing orchestrator
\* mailboxes: up to MaxMessages messages with up to MaxURLs PDF URLs each; a
\* URL is named by its place, <<message, position>>
Mailboxes ==
    { [i \in 1..n |-> [ID |-> i,
                       PDFURLs |-> [u \in 1..cnt[i] |-> <<i, u>>]]] :
        n \in 0..MaxMessages, cnt \in [1..MaxMessages -> 0..MaxURLs] }

\* what the extractor can return for one URL: an error (its text), or a
\* result map
ExtractErrors == {"test error", ""}
ExtractMaps == { [k \in {<<"a","b">>} |-> <<"A","B"," ","z">>] }

\* mutant: only the first message's PDFURLs are visited
WorkListFirstMessage(msgs, i) ==
    IF i > Len(msgs)
    THEN <<>>
    ELSE [u \in 1..Len(msgs[i].PDFURLs) |->
              [msg |-> msgs[i].ID, url |-> msgs[i].PDFURLs[u]]]

\* the order of the two nested loops of ProcessEmails over messages and
\* their PDFURLs
RECURSIVE WorkList(_, _)
WorkList(msgs, i) ==
    IF i > Len(msgs)
    THEN <<>>
    ELSE [u \in 1..Len(msgs[i].PDFURLs) |->
              [msg |-> msgs[i].ID, url |-> msgs[i].PDFURLs[u]]]
            \o WorkList(msgs, i + 1)

\* mutant: the error text stored without its prefix
FailureTextBare(err) == err

\* processPDFURL, line 200: fmt.Sprintf("Failed to extract entities: %v", err)
FailureText(err) == "Failed to extract entities: " \o err

\* processPDFURL, lines 183-207: the result entry of one URL; Entities is
\* <<>> when unset and <<map>> when set
ResultEntry(item, err, map) ==
    IF err # "nil"
    THEN [Filename |-> "statstidende.pdf", EmailSubject |-> item.msg,
          Entities |-> <<>>, Error |-> FailureText(err)]
    ELSE [Filename |-> "statstidende.pdf", EmailSubject |-> item.msg,
          Entities |-> <<map>>, Error |-> ""]

InitProc ==
    /\ IdleX("URL", <<>>)
    /\ mailbox \in Mailboxes
    /\ ppc = "idle"
    /\ emailMessages = <<>>
    /\ analysisResults = <<>>
    /\ procErr = "nil"
    /\ fetchLog = <<>>
    /\ extractLog = <<>>
    /\ sendLog = <<>>
    /\ IdleR
    /\ IdleT
    /\ IdleS

\* ProcessEmails, lines 140-163: the fetch; no messages, or no PDF URL in
\* any message, ends the run without a report
ProcessEmailsFetch ==
    /\ ppc = "idle"
    /\ \E ok \in BOOLEAN :
          /\ fetchLog' = Append(fetchLog, IF ok THEN "ok" ELSE "error")
          /\ IF ~ok
             THEN /\ ppc' = "done"
                  /\ procErr' = "failed to fetch emails"
                  /\ UNCHANGED emailMessages
             ELSE /\ emailMessages' = mailbox
                  /\ procErr' = "nil"
                  /\ ppc' = IF WorkList(mailbox, 1) = <<>>
                            THEN "done" ELSE "extracting"
    /\ UNCHANGED <<mailbox, analysisResults, extractLog, sendLog>>
    /\ UNCHANGED <<varsX, varsR, varsT, varsS>>

\* ProcessEmails, lines 162-165 with processPDFURL, lines 182-207: the
\* extractor returns for the next URL and its result entry is appended
processPDFURL ==
    /\ ppc = "extracting"
    /\ LET work == WorkList(emailMessages, 1)
           item == work[Len(analysisResults) + 1]
       IN  \E err \in ExtractErrors \cup {"nil"}, map \in ExtractMaps :
              /\ extractLog' = Append(extractLog, [url |-> item.url, err |-> err])
              /\ analysisResults' =
                    Append(analysisResults, ResultEntry(item, err, map))
              /\ ppc' = IF Len(analysisResults) + 1 < Len(work)
                        THEN "extracting" ELSE "sending"
    /\ UNCHANGED <<mailbox, emailMessages, procErr, fetchLog, sendLog>>
    /\ UNCHANGED <<varsX, varsR, varsT, varsS>>

\* ProcessEmails, lines 168-179: the report is sent
ProcessEmailsSend ==
    /\ ppc = "sending"
    /\ \E ok \in BOOLEAN :
          /\ sendLog' = Append(sendLog, [results |-> analysisResults, ok |-> ok])
          /\ procErr' = IF ok THEN "nil" ELSE "failed to send analysis results"
    /\ ppc' = "done"
    /\ UNCHANGED <<mailbox, emailMessages, analysisResults, fetchLog, extractLog>>
    /\ UNCHANGED <<varsX, varsR, varsT, varsS>>

NextProc ==
    \/ ProcessEmailsFetch
    \/ processPDFURL
    \/ ProcessEmailsSend

SpecProc == InitProc /\ [][NextProc]_vars

\* ------------------------------------------------------- ProcessWithRetry
\* largest p.config.MaxRetries drawn (MAX_RETRIES is any integer)
MaxOuterRetries == 2
\* most PDF URLs in the mailbox of a ProcessWithRetry run
MaxRetryWork == 1

ConfigMaxRetries == (0 - 1)..MaxOuterRetries

InitRetry ==
    /\ IdleX("URL", <<>>)
    /\ IdleT
    /\ IdleS
    /\ mailbox \in { mb \in Mailboxes : Len(WorkList(mb, 1)) <= MaxRetryWork }
    /\ ppc = "off"
    /\ emailMessages = <<>>
    /\ analysisResults = <<>>
    /\ procErr = "nil"
    /\ fetchLog = <<>>
    /\ extractLog = <<>>
    /\ sendLog = <<>>
    /\ cfgMaxRetries \in ConfigMaxRetries
    /\ rpc = "idle"
    /\ outerAttempt = 0
    /\ lastErr = "nil"
    /\ retryErr = "nil"
    /\ attemptLog = <<>>
    /\ notifyLog = <<>>
    /\ retrySleeps = 0

\* p.ProcessEmails() is called: its locals are fresh
CallProcessEmails ==
    /\ ppc' = "idle"
    /\ emailMessages' = <<>>
    /\ analysisResults' = <<>>
    /\ procErr' = "nil"

\* mutant: the last attempt is given up
HasRetryLeftOneLess(a, max) == a < max - 1

\* mutant: a failed attempt is never followed by another
HasRetryLeftNever(a, max) == FALSE

\* if attempt < p.config.MaxRetries
HasRetryLeft(a, max) == a < max

\* mutant: the notification is sent whatever lastErr is
ShouldNotifyAlways(err) == TRUE

\* if lastErr != nil
ShouldNotify(err) == err # "nil"

\* lines 230-239: after the loop, the notification (whose own failure is only
\* logged) and the error return
AllAttemptsFailed(err, attempts) ==
    /\ notifyLog' =
          IF ShouldNotify(err)
          THEN Append(notifyLog, [msg |-> err, attempts |-> attempts])
          ELSE notifyLog
    /\ retryErr' = "all processing attempts failed"
    /\ rpc' = "done"

\* lines 210-214: the loop is entered with attempt := 1, or not at all
ProcessWithRetryStart ==
    /\ rpc = "idle"
    /\ outerAttempt' = 1
    /\ IF 1 <= cfgMaxRetries
       THEN /\ rpc' = "attempt"
            /\ CallProcessEmails
            /\ UNCHANGED <<retryErr, notifyLog>>
       ELSE /\ AllAttemptsFailed(lastErr, Len(attemptLog))
            /\ UNCHANGED <<ppc, emailMessages, analysisResults, procErr>>
    /\ UNCHANGED <<cfgMaxRetries, lastErr, attemptLog, retrySleeps>>
    /\ UNCHANGED <<mailbox, fetchLog, extractLog, sendLog>>
    /\ UNCHANGED <<varsX, varsT, varsS>>

\* lines 215-227: ProcessEmails has returned
ProcessWithRetryAttemptDone ==
    /\ rpc = "attempt"
    /\ ppc = "done"
    /\ ppc' = "off"
    /\ attemptLog' = Append(attemptLog, procErr)
    /\ IF procErr # "nil"
       THEN /\ lastErr' = procErr
            /\ IF HasRetryLeft(outerAttempt, cfgMaxRetries)
               THEN /\ rpc' = "sleeping"
                    /\ UNCHANGED <<outerAttempt, retryErr, notifyLog>>
               ELSE /\ outerAttempt' = outerAttempt + 1
                    /\ AllAttemptsFailed(procErr, Len(attemptLog) + 1)
       ELSE /\ rpc' = "done"
            /\ retryErr' = "nil"
            /\ UNCHANGED <<outerAttempt, lastErr, notifyLog>>
    /\ UNCHANGED <<cfgMaxRetries, retrySleeps>>
    /\ UNCHANGED <<mailbox, emailMessages, analysisResults, procErr, fetchLog,
                   extractLog, sendLog>>
    /\ UNCHANGED <<varsX, varsT, varsS>>

\* lines 220-223 and 213: time.Sleep(p.config.RetryDelay) is over, attempt++,
\* the next ProcessEmails call
ProcessWithRetrySleepDone ==
    /\ rpc = "sleeping"
    /\ retrySleeps' = retrySleeps + 1
    /\ outerAttempt' = outerAttempt + 1
    /\ rpc' = "attempt"
    /\ CallProcessEmails
    /\ UNCHANGED <<cfgMaxRetries, lastErr, retryErr, attemptLog, notifyLog>>
    /\ UNCHANGED <<mailbox, fetchLog, extractLog, sendLog>>
    /\ UNCHANGED <<varsX, varsT, varsS>>

NextRetry ==
    \/ ProcessWithRetryStart
    \/ ProcessEmailsFetch
    \/ processPDFURL
    \/ ProcessEmailsSend
    \/ ProcessWithRetryAttemptDone
    \/ ProcessWithRetrySleepDone

SpecRetry == InitRetry /\ [][NextRetry]_vars

\* ---------------------------------------------- the text functions alone
\* largest maxTokens handed to smartChunkText
MaxChunkTokens == 2

\* texts
TextDocs ==
    {
      \* a sentence an entity and a keyword hit
      <<"a","b"," ","c","v","r","."," ","x","y">>,
      \* a keyword sentence, no entity: a short and a longer one
      <<"c","v","r","."," ","x","y">>,
      <<"c","v","r","1","2","."," ","x","y">>,
      \* an entity written across a sentence boundary
      <<"a","."," ","b","x","x","x","x">>,
      \* nothing relevant, long and short
      <<"x","y","x","y","x","y","x","y">>,
      <<"x","y">>,
      \* empty, and empty sentences
      <<>>,
      <<"."," ">>,
      \* paragraphs
      <<"a","b","\n","\n","x","y","\n","\n","A","B"," ","f","u","s","i","o","n">>,
      \* lines, the second one indented
      <<"a","b","\n"," ","c","d","\n","e","f">>,
      \* surrounding white space, and white space only
      <<" ","a"," ">>,
      <<" ","\n">>,
      \* a line longer than any budget
      <<"a","b","c","d","e","f","g","h","i","j","\n","k","l">>,
      \* an entity in another case and spacing
      <<"A"," ","b","."," ","n","o">> }

\* entities: those of EntityNames, a name with a space, a lone period
TextEntityNames ==
    EntityNames \cup { <<"a"," ","b">>, <<".">> }

TextEntityLists == UNION { [1..n -> TextEntityNames] : n \in 0..MaxEntities }

InitText ==
    /\ IdleX("File", <<>>)
    /\ IdleP
    /\ IdleR
    /\ IdleS
    /\ inText \in TextDocs
    /\ inEntities \in TextEntityLists
    /\ inMaxTokens = 0
    /\ applied = ""
    /\ output = <<>>

\* one function is applied to the input
Apply(name, result) ==
    /\ applied = ""
    /\ applied' = name
    /\ output' = result
    /\ UNCHANGED <<inText, inEntities>>
    /\ UNCHANGED <<varsX, varsP, varsR, varsS>>

RunPreFilterContent ==
    /\ Apply("preFilterContent", preFilterContent(inText, inEntities))
    /\ UNCHANGED inMaxTokens

RunAggressivePreFilterContent ==
    /\ Apply("aggressivePreFilterContent",
             aggressivePreFilterContent(inText, inEntities))
    /\ UNCHANGED inMaxTokens

RunExtractRelevantSections ==
    /\ Apply("extractRelevantSections",
             extractRelevantSections(inText, inEntities))
    /\ UNCHANGED inMaxTokens

RunExtractUltraRelevantContent ==
    /\ Apply("extractUltraRelevantContent",
             extractUltraRelevantContent(inText, inEntities))
    /\ UNCHANGED inMaxTokens

RunSmartChunkText ==
    \E maxTokens \in 1..MaxChunkTokens :
        /\ Apply("smartChunkText", smartChunkText(inText, maxTokens))
        /\ inMaxTokens' = maxTokens

\* findEntityInText(text, entity) for one entity of the list
RunFindEntityInText ==
    \E i \in 1..Len(inEntities) :
        /\ Apply("findEntityInText",
                 [entity |-> inEntities[i],
                  found |-> findEntityInText(inText, inEntities[i])])
        /\ UNCHANGED inMaxTokens

NextText ==
    \/ RunPreFilterContent
    \/ RunAggressivePreFilterContent
    \/ RunExtractRelevantSections
    \/ RunExtractUltraRelevantContent
    \/ RunSmartChunkText
    \/ RunFindEntityInText

SpecText == InitText /\ [][NextText]_vars

\* ------------------------------------------------------------- scheduler
\* cron ticks modelled, and how far the clock runs
MaxTicks == 2
MaxClock == 4
\* time.After(29 * time.Minute) and context.WithTimeout(..., 30*time.Minute),
\* in scaled minutes; the timer is the shorter by one
WaitMinutes == 2
TimeoutMinutes == 3

InitSched ==
    /\ IdleX("URL", <<>>)
    /\ IdleP
    /\ IdleR
    /\ IdleT
    /\ spc = "new"
    /\ now = 0
    /\ jobs = <<>>

\* Scheduler.Start, lines 41-57: AddFunc refuses a schedule it cannot parse;
\* otherwise the cron is started
SchedulerStart ==
    /\ spc = "new"
    /\ \E valid \in BOOLEAN : spc' = IF valid THEN "started" ELSE "failed"
    /\ UNCHANGED <<now, jobs>>
    /\ UNCHANGED <<varsX, varsP, varsR, varsT>>

\* Scheduler.Stop, lines 60-64: no further tick; what runs goes on
SchedulerStop ==
    /\ spc = "started"
    /\ spc' = "stopped"
    /\ UNCHANGED <<now, jobs>>
    /\ UNCHANGED <<varsX, varsP, varsR, varsT>>

\* the cron fires the entry added at line 45 (cron.New of line 34 wraps the
\* job in nothing that skips or delays a tick while an earlier run is going
\* on): runProcessingJob, lines 67-84, creates its context, starts the
\* goroutine that calls ProcessWithRetry and blocks in the select
CronTick ==
    /\ spc = "started"
    /\ Len(jobs) < MaxTicks
    /\ jobs' = Append(jobs, [start |-> now, phase |-> "waiting",
                             report |-> "", returnedAt |-> 0 - 1,
                             proc |-> "running", finishedAt |-> 0 - 1])
    /\ UNCHANGED <<spc, now>>
    /\ UNCHANGED <<varsX, varsP, varsR, varsT>>

\* lines 75-81: ProcessWithRetry returns in the goroutine, which logs the
\* outcome and ends; nothing is sent to runProcessingJob
ProcessWithRetryReturns ==
    \E j \in 1..Len(jobs) :
        /\ jobs[j].proc = "running"
        /\ \E ok \in BOOLEAN :
              jobs' = [jobs EXCEPT ![j].proc = IF ok THEN "completed"
                                                    ELSE "failed",
                                   ![j].finishedAt = now]
        /\ UNCHANGED <<spc, now>>
        /\ UNCHANGED <<varsX, varsP, varsR, varsT>>

\* the cases of the select of lines 84-89 that can proceed
ReadyCases(job) ==
    { c \in {"ctx.Done", "time.After"} :
        \/ c = "time.After" /\ now - job.start >= WaitMinutes
        \/ c = "ctx.Done" /\ now - job.start >= TimeoutMinutes }

\* lines 84-90: the select proceeds with a case that is ready, logs and
\* runProcessingJob returns
SelectProceeds ==
    \E j \in 1..Len(jobs) :
        /\ jobs[j].phase = "waiting"
        /\ \E c \in ReadyCases(jobs[j]) :
              jobs' = [jobs EXCEPT
                         ![j].phase = "returned",
                         ![j].returnedAt = now,
                         ![j].report =
                            IF c = "ctx.Done"
                            THEN "Processing job timed out after 30 minutes"
                            ELSE "Processing job completed within time limit"]
        /\ UNCHANGED <<spc, now>>
        /\ UNCHANGED <<varsX, varsP, varsR, varsT>>

\* a minute passes; a select with a ready case proceeds before the next one
\* does
MinutePasses ==
    /\ now < MaxClock
    /\ \A j \in 1..Len(jobs) :
          jobs[j].phase = "waiting" => ReadyCases(jobs[j]) = {}
    /\ now' = now + 1
    /\ UNCHANGED <<spc, jobs>>
    /\ UNCHANGED <<varsX, varsP, varsR, varsT>>

NextSched ==
    \/ SchedulerStart
    \/ SchedulerStop
    \/ CronTick
    \/ ProcessWithRetryReturns
    \/ SelectProceeds
    \/ MinutePasses

SpecSched == InitSched /\ [][NextSched]_vars

\* ------------------------------------------------- report: result cleanup
\* strings.HasPrefix, strings.TrimPrefix
HasPrefix(s, prefix) ==
    /\ Len(prefix) <= Len(s)
    /\ SubSeq(s, 1, Len(prefix)) = prefix

TrimPrefix(s, prefix) ==
    IF HasPrefix(s, prefix) THEN SubSeq(s, Len(prefix) + 1, Len(s)) ELSE s

\* mutant: the hyphen is left in place
cleanEntityResultColonOnly(entityName, result) ==
    IF HasPrefix(TrimSpace(result), entityName)
    THEN TrimSpace(TrimPrefix(
             TrimSpace(TrimPrefix(TrimSpace(result), entityName)), <<":">>))
    ELSE result

\* EmailSender.cleanEntityResult, sender.go lines 69-81
cleanEntityResult(entityName, result) ==
    IF HasPrefix(TrimSpace(result), entityName)
    THEN LET cleaned0 == TrimSpace(TrimPrefix(TrimSpace(result), entityName))
             cleaned1 == TrimSpace(TrimPrefix(cleaned0, <<":">>))
             cleaned2 == TrimSpace(TrimPrefix(cleaned1, <<"-">>))
             cleaned3 == TrimSpace(TrimPrefix(cleaned2, <<" ">>))
         IN  cleaned3
    ELSE result

\* result strings handed to cleanEntityResult
ResultTexts ==
    { <<"a","b",":"," ","x">>,
      <<" ","a","b"," ","-"," ","x"," ">>,
      <<"a","b",":","-"," ","x">>,
      <<"a","b","-",":"," ","x">>,
      <<"a","b"," ","x">>,
      <<"a","b">>,
      <<"x"," ","a","b">>,
      <<" ","x",":"," ">>,
      <<" ","N","o","\n">>,
      <<"c","-","d",":","y">>,
      <<"-","x">>,
      <<>> }

InitClean ==
    /\ IdleX("File", <<>>)
    /\ IdleP
    /\ IdleR
    /\ IdleS
    /\ inText \in ResultTexts
    /\ inEntities \in [1..1 -> TextEntityNames]
    /\ inMaxTokens = 0
    /\ applied = ""
    /\ output = <<>>

\* cleanEntityResult(entityName, result) for the entity and the result drawn
RunCleanEntityResult ==
    /\ Apply("cleanEntityResult", cleanEntityResult(inEntities[1], inText))
    /\ UNCHANGED inMaxTokens

SpecClean == InitClean /\ [][RunCleanEntityResult]_vars

FairSpec == Spec /\ WF_vars(Next)

\* ===================================================================== claims
RetryEntry == entry \in {"URL", "File"}

\* no tracked entity matches the document (Entity Matcher on the full text)
NoEntityMatches ==
    \A i \in 1..Len(entities) : ~findEntityInText(pdfText, entities[i])

\* the run got its document: credential present, PDF text extracted
HasDocument ==
    /\ pc # "idle"
    /\ apiKey
    /\ retErr # "failed to extract text from PDF"

\* C1: early termination. Once ExtractEntitiesFromPDFFile holds a document in
\* which findEntityInText matches no tracked entity, it has returned success
\* with every requested entity mapped to "No information found." and no
\* provider call has been issued at any point of the run.
C1_EarlyTermination ==
    (entry = "File" /\ HasDocument /\ NoEntityMatches) =>
        /\ pc = "done"
        /\ retErr = "nil"
        /\ DOMAIN allResults = Range(entities)
        /\ \A k \in Range(entities) : allResults[k] = NoInformationFound
        /\ calls = 0
        /\ outcomes = <<>>

C1_Witness ==
    /\ entry = "File" /\ HasDocument /\ NoEntityMatches
    /\ pc = "done"
    /\ Len(entities) = 2 /\ entities[1] # entities[2]
    /\ pdfText # <<>>
    /\ calls = 0

RateLimitedTwice ==
    /\ Len(outcomes) >= 2
    /\ outcomes[1] = "rate_limit"
    /\ outcomes[2] = "rate_limit"

\* C2: retryable failures are resolved internally. When the provider answers
\* the first two attempts with a rate-limit error the extraction has not
\* returned after either of them, and when the third attempt succeeds it
\* returns the successful result, without error, after exactly three calls.
C2_RetryResolvedInternally ==
    (RetryEntry /\ RateLimitedTwice) =>
        /\ Len(outcomes) = 2 => pc # "done" /\ retErr = "nil"
        /\ (Len(outcomes) = 3 /\ outcomes[3] = "ok") =>
              /\ pc = "done"
              /\ retErr = "nil"
              /\ calls = 3
              /\ Len(answers) = 1
              /\ \A k \in Range(entities) :
                    /\ k \in DOMAIN allResults
                    /\ Contains(ToLower(answers[1]), ToLower(k)) =>
                          Contains(ToLower(answers[1]), ToLower(allResults[k]))

C2_Witness ==
    /\ entry = "File" /\ RateLimitedTwice
    /\ outcomes = <<"rate_limit", "rate_limit", "ok">>
    /\ pc = "done" /\ retErr = "nil" /\ calls = 3
    /\ \E k \in DOMAIN allResults : allResults[k] # NoInformationFound

\* C3 (as claimed): with two consecutive rate-limit failures followed by a
\* success, the sleep before the second attempt is 1s and the sleep before
\* the third attempt is 2s.
C3_BackoffSequence ==
    (RetryEntry /\ pc = "done"
        /\ outcomes = <<"rate_limit", "rate_limit", "ok">>) =>
        sleeps = <<1, 2>>

\* the provider errors that are not rate limits, per entry point
ProviderErrorKinds ==
    IF entry = "URL"
    THEN {"http_error", "bad_json", "api_error", "not_completed", "bad_output"}
    ELSE {"provider", "no_choices"}

\* C4: a non-rate-limit provider error is fatal. The attempt on which it
\* occurs is the last one: the extraction has returned an error, no sleep
\* and no provider call follows it; if it occurs on the first attempt the
\* provider was called exactly once.
C4_ProviderErrorFatal ==
    RetryEntry =>
        \A i \in 1..Len(outcomes) :
            outcomes[i] \in ProviderErrorKinds =>
                /\ i = Len(outcomes)
                /\ pc = "done"
                /\ retErr # "nil"
                /\ calls = i
                /\ Len(sleeps) = i - 1

C4_Witness ==
    /\ entry = "File"
    /\ outcomes = <<"rate_limit", "provider">>
    /\ pc = "done" /\ retErr = "failed to get chat completion"
    /\ calls = 2

\* C5 (as claimed): in every extraction entry point a transport error on an
\* attempt that is not the last one is followed by a backoff sleep and
\* another attempt, not by an immediate error return.
C5_TransportRetried ==
    RetryEntry =>
        \A i \in 1..Len(outcomes) :
            (outcomes[i] = "transport" /\ i < 3) =>
                ~(pc = "done" /\ Len(outcomes) = i)

RetryableKinds ==
    IF entry = "URL" THEN {"transport", "cancelled", "rate_limit"}
    ELSE {"rate_limit"}

AttemptsBounded ==
    RetryEntry =>
        /\ calls <= 3
        /\ attempt <= 2
        /\ Len(sleeps) <= 2
        /\ (Len(outcomes) = 3 /\ \A i \in 1..3 : outcomes[i] \in RetryableKinds) =>
              pc = "done" /\ retErr # "nil"

\* C6: bounded attempts. One extraction issues at most 3 provider calls; when
\* all 3 attempts end in a retryable failure it returns an error instead of
\* retrying again; every run of the retry loop ends.
C6_BoundedAttempts == []AttemptsBounded /\ <>(pc = "done")

C6_Witness ==
    /\ RetryEntry
    /\ outcomes = <<"rate_limit", "rate_limit", "rate_limit">>
    /\ pc = "done" /\ retErr = "rate limit exceeded after 3 retries"
    /\ calls = 3 /\ Len(sleeps) = 2

\* C7 (as claimed): once the context is cancelled during a provider call or a
\* backoff sleep, the extraction's next step is its error return: the
\* pending sleep is abandoned, no further provider call is started and no
\* retry slot is consumed.
C7_CancellationPrompt ==
    [][(ctxDone /\ cancelledIn \in {"calling", "sleeping"}) =>
          /\ pc' = "done"
          /\ retErr' # "nil"
          /\ calls' = calls
          /\ sleeps' = sleeps
          /\ attempt' = attempt]_vars

\* the pieces a chunked run is claimed to return for an entity: the pieces
\* of the answers that mention it, in order, joined by a blank line
RECURSIVE JoinedPieces(_, _, _)
JoinedPieces(k, as, i) ==
    IF i > Len(as)
    THEN <<>>
    ELSE LET rest == JoinedPieces(k, as, i + 1)
         IN  IF Contains(ToLower(as[i]), ToLower(k))
             THEN <<EntityInfo(as[i], k)>> \o rest
             ELSE rest

RECURSIVE JoinBlankLine(_)
JoinBlankLine(ps) ==
    IF Len(ps) = 0 THEN <<>>
    ELSE IF Len(ps) = 1 THEN ps[1]
    ELSE ps[1] \o <<"\n", "\n">> \o JoinBlankLine(Tail(ps))

\* C8 (as claimed): after a chunked extraction every entity's value is the
\* pieces of all chunk answers that mention it, in chunk order, joined by a
\* blank line, and "No information found." when no chunk answer mentions it.
C8_ChunkMerge ==
    (entry = "Chunked" /\ pc = "done" /\ retErr = "nil") =>
        \A k \in Range(entities) :
            /\ k \in DOMAIN allResults
            /\ allResults[k] =
                  IF JoinedPieces(k, answers, 1) = <<>>
                  THEN NoInformationFound
                  ELSE JoinBlankLine(JoinedPieces(k, answers, 1))

\* C9: result completeness. Every extraction that returns without error
\* returns a mapping whose key set is exactly the set of requested entities,
\* and an entity whose name occurs (case-insensitively) in no provider answer
\* maps to "No information found.".
C9_ResultComplete ==
    (pc = "done" /\ retErr = "nil") =>
        /\ DOMAIN allResults = Range(entities)
        /\ \A k \in Range(entities) :
              (\A i \in 1..Len(answers) :
                    ~Contains(ToLower(answers[i]), ToLower(k))) =>
                  allResults[k] = NoInformationFound

C9_Witness ==
    /\ entry = "Chunked" /\ pc = "done" /\ retErr = "nil"
    /\ Len(answers) >= 2
    /\ \E k1, k2 \in Range(entities) :
          /\ allResults[k1] = NoInformationFound
          /\ \A i \in 1..Len(answers) : ~Contains(ToLower(answers[i]), ToLower(k1))
          /\ allResults[k2] # NoInformationFound

\* the extractor calls that failed, by position in the work list
FailedAt(k) == extractLog[k].err # "nil"

\* C10: a single document's extraction failure is non-fatal to the batch.
\* Whatever subset of the extractions fails, a finished ProcessEmails whose
\* fetch delivered PDF URLs has run the extractor for every URL in order,
\* holds one result entry per URL, the failing ones with a non-empty Error
\* and Entities unset, has handed all of them to the sender in one call, and
\* returns nil unless that send itself failed.
C10_ExtractionFailureNonFatal ==
    (ppc = "done" /\ fetchLog = <<"ok">> /\ WorkList(mailbox, 1) # <<>>) =>
        LET work == WorkList(mailbox, 1)
        IN  /\ Len(extractLog) = Len(work)
            /\ \A k \in 1..Len(work) : extractLog[k].url = work[k].url
            /\ Len(analysisResults) = Len(work)
            /\ \A k \in 1..Len(work) :
                  FailedAt(k) =>
                      /\ analysisResults[k].Error # ""
                      /\ analysisResults[k].Error =
                            "Failed to extract entities: " \o extractLog[k].err
                      /\ analysisResults[k].Entities = <<>>
            /\ \A k \in 1..Len(work) :
                  ~FailedAt(k) =>
                      /\ analysisResults[k].Error = ""
                      /\ analysisResults[k].Entities # <<>>
            /\ Len(sendLog) = 1
            /\ sendLog[1].results = analysisResults
            /\ sendLog[1].ok => procErr = "nil"

C10_Witness ==
    /\ ppc = "done" /\ procErr = "nil"
    /\ Len(extractLog) >= 3
    /\ FailedAt(1) /\ ~FailedAt(2) /\ FailedAt(3)
    /\ Len(sendLog) = 1 /\ sendLog[1].ok
    /\ Len(sendLog[1].results) = Len(extractLog)

\* the ProcessEmails calls made so far that failed / succeeded
AttemptFailed(i) == attemptLog[i] # "nil"

\* C11: failure notification. SendErrorNotification is raised at most once,
\* and only when ProcessWithRetry has made all of its MaxRetries attempts of
\* ProcessEmails and every one failed; it is raised after the last attempt,
\* with the last attempt's error, and the call returns an error. When all
\* MaxRetries (at least one) attempts have failed the notification has been
\* raised. An attempt that succeeds is the last one: the call has returned
\* nil, no further ProcessEmails call is made and nothing is notified.
C11_FailureNotification ==
    /\ Len(notifyLog) <= 1
    /\ Len(fetchLog) <= IF cfgMaxRetries > 0 THEN cfgMaxRetries ELSE 0
    /\ Len(notifyLog) = 1 =>
          /\ cfgMaxRetries >= 1
          /\ Len(attemptLog) = cfgMaxRetries
          /\ \A i \in 1..Len(attemptLog) : AttemptFailed(i)
          /\ notifyLog[1].attempts = cfgMaxRetries
          /\ notifyLog[1].msg = attemptLog[cfgMaxRetries]
          /\ Len(fetchLog) = cfgMaxRetries
          /\ rpc = "done"
          /\ retryErr # "nil"
    /\ ( /\ cfgMaxRetries >= 1
         /\ Len(attemptLog) = cfgMaxRetries
         /\ \A i \in 1..Len(attemptLog) : AttemptFailed(i) ) =>
          Len(notifyLog) = 1
    /\ \A i \in 1..Len(attemptLog) :
          ~AttemptFailed(i) =>
              /\ i = Len(attemptLog)
              /\ Len(fetchLog) = i
              /\ rpc = "done"
              /\ retryErr = "nil"
              /\ notifyLog = <<>>

C11_Witness ==
    /\ rpc = "done"
    /\ cfgMaxRetries = 2
    /\ attemptLog = <<"failed to send analysis results", "failed to fetch emails">>
    /\ notifyLog = <<[msg |-> "failed to fetch emails", attempts |-> 2]>>
    /\ retrySleeps = 1

\* the segments of the input a filter would keep: those an entity or a
\* keyword hits
SomeSegmentHit(sep, matcher, keywords) ==
    \E seg \in Range(Split(inText, sep)) :
        EntityHit(matcher, seg, inEntities) \/ KeywordHit(seg, keywords)

\* C12: the filters never return an empty string for non-empty input. For
\* every non-empty text and every entity list, the results of
\* preFilterContent, extractRelevantSections and extractUltraRelevantContent
\* are non-empty.
C12_FilterNonEmpty ==
    ( /\ applied \in {"preFilterContent", "extractRelevantSections",
                      "extractUltraRelevantContent"}
      /\ inText # <<>> ) =>
        output # <<>>

C12_Witness ==
    /\ applied = "extractUltraRelevantContent"
    /\ inText = <<".", " ">>
    /\ inEntities = << <<".">> >>
    /\ output # <<>>

\* C13 (as claimed): for any text and entity list the result of
\* extractUltraRelevantContent is at most as long as the result of
\* extractRelevantSections on the same input.
C13_UltraAtMostFilter ==
    applied = "extractUltraRelevantContent" =>
        Len(output) <= Len(extractRelevantSections(inText, inEntities))

\* C13 (amended): the result of extractUltraRelevantContent is at most as
\* long as the result of extractRelevantSections on the same input whenever
\* the latter is longer than the ultra filter's fallback length (500), as it
\* is whenever the ultra filter is called (above 8000).
C13_UltraAtMostFilterAboveFallback ==
    ( /\ applied = "extractUltraRelevantContent"
      /\ Len(extractRelevantSections(inText, inEntities)) > UltraFallbackChars ) =>
        Len(output) <= Len(extractRelevantSections(inText, inEntities))

C13_Witness ==
    /\ applied = "extractUltraRelevantContent"
    /\ ~SomeSegmentHit(SentenceSep, TRUE, <<>>)
    /\ SomeSegmentHit(SentenceSep, TRUE, businessKeywords)
    /\ Len(extractRelevantSections(inText, inEntities)) > UltraFallbackChars
    /\ Len(output) = UltraFallbackChars
    /\ Len(output) < Len(inText)

\* the segments an entity or a keyword hits, each once, in their order
KeptOnce(sep, matcher, keywords) ==
    SelectSeq(Split(inText, sep),
              LAMBDA seg : EntityHit(matcher, seg, inEntities)
                              \/ KeywordHit(seg, keywords))

\* C14 (as claimed): when some segment matches an entity or a keyword, the
\* result of the filter is the kept segments in their original order, each
\* exactly once, joined by the separator the text was split on, and is not
\* longer than the text.
C14_FilteredIsSubset ==
    /\ ( /\ applied = "extractRelevantSections"
         /\ SomeSegmentHit(SentenceSep, TRUE, businessKeywords) ) =>
          /\ output = Join(KeptOnce(SentenceSep, TRUE, businessKeywords),
                           SentenceSep)
          /\ Len(output) <= Len(inText)
    /\ ( /\ applied = "preFilterContent"
         /\ SomeSegmentHit(ParagraphSep, FALSE, businessKeywordsParagraph) ) =>
          /\ output = Join(KeptOnce(ParagraphSep, FALSE,
                                    businessKeywordsParagraph), ParagraphSep)
          /\ Len(output) <= Len(inText)

IsPrefix(p, s) == Len(p) <= Len(s) /\ SubSeq(s, 1, Len(p)) = p

FirstChars(s, n) == SubSeq(s, 1, Min(n, Len(s)))

\* C15 (as claimed): when no segment is kept, preFilterContent returns the
\* text unchanged, extractRelevantSections and aggressivePreFilterContent
\* return its first 1000 characters and extractUltraRelevantContent its
\* first 500; each result is a prefix of the text.
C15_FilterFallback ==
    /\ ( /\ applied = "preFilterContent"
         /\ ~SomeSegmentHit(ParagraphSep, FALSE, businessKeywordsParagraph) ) =>
          output = inText
    /\ ( /\ applied = "extractRelevantSections"
         /\ ~SomeSegmentHit(SentenceSep, TRUE, businessKeywords) ) =>
          output = FirstChars(inText, FilterFallbackChars)
    /\ ( /\ applied = "aggressivePreFilterContent"
         /\ ~SomeSegmentHit(SentenceSep, FALSE, businessKeywords) ) =>
          /\ output = FirstChars(inText, FilterFallbackChars)
          /\ IsPrefix(output, inText)
    /\ ( /\ applied = "extractUltraRelevantContent"
         /\ ~SomeSegmentHit(SentenceSep, TRUE, <<>>) ) =>
          output = FirstChars(inText, UltraFallbackChars)

\* C16 (as claimed): the document text ExtractEntitiesFromPDFFile sends is
\* reduced by content only: every sentence of it is a sentence of the
\* document, and every sentence of the document that a tracked entity
\* matches is in it; it is never the document cut at a character offset.
C16_NoTruncation ==
    (entry = "File" /\ calls >= 1) =>
        LET docSentences == Split(pdfText, SentenceSep)
            sentSentences == Split(textToProcess, SentenceSep)
        IN  /\ \A i \in 1..Len(sentSentences) :
                  sentSentences[i] \in Range(docSentences)
            /\ \A j \in 1..Len(docSentences) :
                  EntityHit(TRUE, docSentences[j], entities) =>
                      docSentences[j] \in Range(sentSentences)

\* the character budget of the smartChunkText call
Budget == inMaxTokens * 3

\* C17 (as claimed): smartChunkText returns no chunk for an empty or
\* white-space-only text, and for any other text shorter than the budget
\* exactly one chunk, equal to the trimmed text.
C17_SmallInputTrimmed ==
    applied = "smartChunkText" =>
        /\ TrimSpace(inText) = <<>> => output = <<>>
        /\ (TrimSpace(inText) # <<>> /\ Len(inText) < Budget) =>
              output = <<TrimSpace(inText)>>

\* C17 (amended): smartChunkText returns no chunk for an empty or
\* white-space-only text, and for any other text not longer than the budget
\* exactly one chunk, equal to the text as given: white space around it is
\* kept.
C17_SmallInputAsGiven ==
    applied = "smartChunkText" =>
        /\ TrimSpace(inText) = <<>> => output = <<>>
        /\ (TrimSpace(inText) # <<>> /\ Len(inText) <= Budget) =>
              output = <<inText>>

C17_Witness ==
    /\ applied = "smartChunkText"
    /\ inText = <<" ", "a", " ">>
    /\ Len(inText) < Budget
    /\ output = <<inText>>

\* the lines of a sequence of texts, in order
RECURSIVE LinesOf(_)
LinesOf(texts) ==
    IF Len(texts) = 0 THEN <<>>
    ELSE Split(texts[1], <<"\n">>) \o LinesOf(Tail(texts))

NonBlank(lines) == SelectSeq(lines, LAMBDA l : TrimSpace(l) # <<>>)

Trimmed(lines) == [i \in 1..Len(lines) |-> TrimSpace(lines[i])]

\* C18 (as claimed): the lines of the chunks smartChunkText returns, taken
\* in chunk order, are the non-blank lines of the text: each exactly once,
\* in their order, unaltered.
C18_RoundTrip ==
    applied = "smartChunkText" =>
        NonBlank(LinesOf(output)) = NonBlank(Split(inText, <<"\n">>))

\* C18 (amended): the lines of the chunks smartChunkText returns, taken in
\* chunk order, are the non-blank lines of the text, each exactly once and
\* in their order, up to the white space at the start and the end of a line
\* (a chunk is trimmed, which alters its first and its last line).
C18_RoundTripTrimmed ==
    applied = "smartChunkText" =>
        Trimmed(NonBlank(LinesOf(output)))
            = Trimmed(NonBlank(Split(inText, <<"\n">>)))

C18_Witness ==
    /\ applied = "smartChunkText"
    /\ inMaxTokens = 1
    /\ inText = <<"a","b","\n"," ","c","d","\n","e","f">>
    /\ output = << <<"a","b">>, <<"c","d">>, <<"e","f">> >>

\* C19: chunk size bound. Every chunk smartChunkText returns is non-empty
\* and at most as long as the character budget, unless it is a single line
\* of the text (trimmed) that is longer than the budget; a line longer than
\* the budget is returned whole, as a chunk of its own.
C19_ChunkSizeBound ==
    applied = "smartChunkText" =>
        LET lines == Split(inText, <<"\n">>)
        IN  /\ \A c \in 1..Len(output) :
                  /\ output[c] # <<>>
                  /\ \/ Len(output[c]) <= Budget
                     \/ /\ ~Contains(output[c], <<"\n">>)
                        /\ \E l \in 1..Len(lines) : output[c] = TrimSpace(lines[l])
            /\ \A l \in 1..Len(lines) :
                  Len(TrimSpace(lines[l])) > Budget =>
                      \E c \in 1..Len(output) : output[c] = TrimSpace(lines[l])

C19_Witness ==
    /\ applied = "smartChunkText"
    /\ inText = <<"a","b","c","d","e","f","g","h","i","j","\n","k","l">>
    /\ Len(output) = 2
    /\ Len(output[1]) > Budget
    /\ output[2] = <<"k","l">>

\* the text and the entity as the claim normalises them: lower-cased, then
\* the spaces removed
Normalised(s) == RemoveChar(ToLower(s), " ")

LiteralSubstring(text, entity) ==
    \E from \in 1..(Len(Normalised(text)) - Len(Normalised(entity)) + 1) :
        SubSeq(Normalised(text), from, from + Len(Normalised(entity)) - 1)
            = Normalised(entity)

\* C20: matcher completeness on literal matches. For every text and every
\* non-empty entity whose lower-cased, space-free form is a substring of the
\* lower-cased, space-free text, findEntityInText returns true.
C20_MatcherComplete ==
    ( /\ applied = "findEntityInText"
      /\ output.entity # <<>>
      /\ LiteralSubstring(inText, output.entity) ) =>
        output.found

C20_Witness ==
    /\ applied = "findEntityInText"
    /\ inText = <<"A"," ","b","."," ","n","o">>
    /\ output.entity = <<"a"," ","b">>
    /\ LiteralSubstring(inText, output.entity)
    /\ output.found

\* ---------------------------------------------------------------------------
\* C21  Sequential chunk calls with spacing: while a document is processed in
\* several chunks, at most one chunk call is in flight, the k-th call is the
\* call for the k-th chunk, and between the end of one chunk call and the
\* start of the next one inter-request delay has been slept: when the k-th
\* call has been started, k - 1 delays have been slept.
C21_SequentialWithSpacing ==
    entry = "Chunked" =>
        /\ calls - Len(outcomes) \in {0, 1}
        /\ (pc = "calling") <=> (calls = Len(outcomes) + 1)
        /\ calls >= 1 => chunkIdx = calls
        /\ calls >= 2 => Len(sleeps) = calls - 1

\* the PDF URLs of a mailbox, and the fetch order on them: by message, then
\* by position within the message
URLsOf(msgs) ==
    { p \in (1..Len(msgs)) \X (1..MaxURLs) : p[2] <= Len(msgs[p[1]].PDFURLs) }

FetchedBefore(p, q) == p[1] < q[1] \/ (p[1] = q[1] /\ p[2] < q[2])

\* ---------------------------------------------------------------------------
\* C22  Report assembly: the extractor is run on the PDF URLs in fetch order
\* and each run appends one AnalysisResult carrying its message's subject;
\* nothing is sent before every URL has its result; a finished ProcessEmails
\* whose fetch delivered PDF URLs holds exactly one result per URL and has
\* called SendAnalysisResults once, with all of them; when the fetch returns
\* no messages it returns nil and neither the extractor nor the sender has
\* been called.
C22_ReportAssembly ==
    /\ Len(analysisResults) = Len(extractLog)
    /\ \A k \in 1..Len(extractLog) :
          /\ extractLog[k].url \in URLsOf(mailbox)
          /\ analysisResults[k].EmailSubject = extractLog[k].url[1]
          /\ \A j \in 1..(k - 1) :
                FetchedBefore(extractLog[j].url, extractLog[k].url)
    /\ Len(sendLog) <= 1
    /\ sendLog # <<>> =>
          /\ sendLog[1].results = analysisResults
          /\ Len(analysisResults) = Cardinality(URLsOf(mailbox))
    /\ (ppc = "done" /\ fetchLog = <<"ok">> /\ URLsOf(mailbox) # {}) =>
          /\ Len(analysisResults) = Cardinality(URLsOf(mailbox))
          /\ Len(sendLog) = 1
    /\ (ppc = "done" /\ fetchLog = <<"ok">> /\ mailbox = <<>>) =>
          /\ procErr = "nil"
          /\ extractLog = <<>>
          /\ sendLog = <<>>

\* two messages with two PDF URLs each, all four results sent in one call
C22_Witness ==
    /\ ppc = "done"
    /\ Len(mailbox) = 2
    /\ Cardinality(URLsOf(mailbox)) = 4
    /\ Len(sendLog) = 1
    /\ Len(sendLog[1].results) = 4
    /\ extractLog[2].url = <<1, 2>> /\ extractLog[3].url = <<2, 1>>

\* what follows the entity name in the trimmed result, trimmed
Remainder(result, entityName) ==
    TrimSpace(SubSeq(TrimSpace(result), Len(entityName) + 1,
                     Len(TrimSpace(result))))

StartsWithName(result, entityName) ==
    /\ Len(entityName) <= Len(TrimSpace(result))
    /\ \A i \in 1..Len(entityName) : TrimSpace(result)[i] = entityName[i]

DropLeading(s, chars) == IF s # <<>> /\ s[1] \in chars THEN Tail(s) ELSE s

\* ---------------------------------------------------------------------------
\* C23  Entity-name-prefix cleanup: if the trimmed result starts with the
\* entity name, cleanEntityResult returns what follows the name with one
\* leading ':' or '-' and the surrounding white space removed; otherwise it
\* returns the result unchanged.
C23_PrefixCleanup ==
    applied = "cleanEntityResult" =>
        IF StartsWithName(inText, inEntities[1])
        THEN output = TrimSpace(DropLeading(Remainder(inText, inEntities[1]),
                                            {":", "-"}))
        ELSE output = inText

\* C23 as the code has it: a leading ':' is removed and then a leading '-',
\* each with the white space around it, so ":-" goes as a whole and of "-:"
\* only the hyphen.
C23_PrefixCleanupColonThenHyphen ==
    applied = "cleanEntityResult" =>
        IF StartsWithName(inText, inEntities[1])
        THEN output =
                TrimSpace(DropLeading(
                    TrimSpace(DropLeading(Remainder(inText, inEntities[1]),
                                          {":"})),
                    {"-"}))
        ELSE output = inText

\* the shape of the spec's scenario: "<entity>: <information>"
C23_Witness ==
    /\ applied = "cleanEntityResult"
    /\ inEntities = << <<"a","b">> >>
    /\ inText = <<"a","b",":"," ","x">>
    /\ output = <<"x">>

\* ---------------------------------------------------------------------------
\* C24  The scheduled job waits for completion or timeout: runProcessingJob
\* does not stay blocked once its ProcessWithRetry goroutine has finished;
\* when it has returned, either the goroutine had finished by then and
\* completion is reported, or the timeout had expired with the goroutine
\* still running and the time-out is reported.
C24_WaitsForCompletionOrTimeout ==
    \A j \in 1..Len(jobs) :
        /\ jobs[j].phase = "waiting" =>
              \/ jobs[j].proc = "running"
              \/ jobs[j].finishedAt = now
        /\ jobs[j].phase = "returned" =>
              \/ /\ jobs[j].finishedAt # 0 - 1
                 /\ jobs[j].finishedAt <= jobs[j].returnedAt
                 /\ jobs[j].report = "Processing job completed within time limit"
              \/ /\ jobs[j].returnedAt - jobs[j].start >= TimeoutMinutes
                 /\ jobs[j].report = "Processing job timed out after 30 minutes"

\* ---------------------------------------------------------------------------
\* C25  No overlapping runs: at any time at most one ProcessWithRetry
\* execution started by the scheduler is in progress.
C25_NoOverlappingRuns ==
    Cardinality({ j \in 1..Len(jobs) : jobs[j].proc = "running" }) <= 1

\* ---------------------------------------------------------------------------
\* C26  Retries resend the same request: in ExtractEntitiesFromPDFURL every
\* client.Do, the first one and each retry, has the same JSON payload to
\* send.
C26_RetriesResendRequest ==
    entry = "URL" =>
        /\ Len(bodies) = calls
        /\ \A i \in 1..Len(bodies) : bodies[i] = "payload"

\* some sentence of the text is matched by a tracked entity
SentenceMatches(text) ==
    \E i \in 1..Len(Split(text, SentenceSep)), k \in 1..Len(entities) :
        findEntityInText(Split(text, SentenceSep)[i], entities[k])

\* ---------------------------------------------------------------------------
\* C27  Filter input always carries a match: whenever
\* ExtractEntitiesFromPDFFile has passed the early-termination check and
\* issued a provider call, the text placed in the prompt has a sentence that
\* findEntityInText matches for a tracked entity.
C27_PromptCarriesMatch ==
    (entry = "File" /\ calls >= 1) => SentenceMatches(textToProcess)

\* C27 for the documents in which a sentence of its own is matched: then the
\* prompt text has a matched sentence too. (An entity that the
\* whole-document check finds only across a sentence boundary passes the
\* check with no sentence matched.)
C27_PromptCarriesMatchOfSentence ==
    (entry = "File" /\ calls >= 1 /\ SentenceMatches(pdfText)) =>
        SentenceMatches(textToProcess)

\* the entity's sentence lies behind the fallback prefix and is what the
\* prompt carries
C27_Witness ==
    /\ entry = "File" /\ calls >= 1
    /\ entities = << <<"a","b">> >>
    /\ pdfText = <<"x","y","x","y","."," ","a","b">>
    /\ textToProcess = <<"a","b">>

\* an entity of which nothing is left once spaces, hyphens and periods are
\* removed (an entity that is empty without its spaces is one of them)
Degenerate(entity) ==
    \A i \in 1..Len(entity) : entity[i] \in {" ", "-", "."}

\* ExtractEntitiesFromPDFFile has got as far as the early-termination check
ReachedCheck ==
    /\ entry = "File"
    /\ pc # "idle"
    /\ retErr \notin { "OPENAI_API_KEY environment variable not set",
                       "failed to extract text from PDF" }

\* ---------------------------------------------------------------------------
\* C28  Degenerate entities defeat early termination: with a degenerate
\* entity in the list, findEntityInText matches the document whatever its
\* text, the empty text included, so an extraction that gets as far as the
\* check never returns the early result and always attempts a provider call.
C28_DegenerateEntity ==
    \A k \in 1..Len(entities) :
        (ReachedCheck /\ Degenerate(entities[k])) =>
            /\ findEntityInText(pdfText, entities[k])
            /\ calls >= 1
            /\ ~(pc = "done" /\ retErr = "nil" /\ outcomes = <<>>)

\* an entity of punctuation only, the empty document, and the call made
C28_Witness ==
    /\ ReachedCheck
    /\ entities = << <<"a","b">>, <<"."," ">> >>
    /\ pdfText = <<>>
    /\ pc = "calling" /\ calls = 1

\* ---------------------------------------------------------------------------
\* C29  ProcessWithRetry with MaxRetries <= 0 never calls ProcessEmails,
\* sends no failure notification and, once returned, has returned the "all
\* attempts failed" error; with MaxRetries >= 1 a returned ProcessWithRetry
\* has called ProcessEmails at least once and at most MaxRetries times, and
\* it has slept the retry delay between attempts only: one sleep less than
\* attempts, none after the last.
C29_RetryBounds ==
    /\ cfgMaxRetries <= 0 =>
          /\ ppc = "off"
          /\ fetchLog = <<>>
          /\ attemptLog = <<>>
          /\ notifyLog = <<>>
          /\ retrySleeps = 0
          /\ rpc = "done" => retryErr = "all processing attempts failed"
    /\ (cfgMaxRetries >= 1 /\ rpc = "done") =>
          /\ Len(attemptLog) >= 1
          /\ Len(attemptLog) <= cfgMaxRetries
          /\ Len(fetchLog) = Len(attemptLog)
          /\ retrySleeps = Len(attemptLog) - 1
    /\ (cfgMaxRetries >= 1 /\ rpc # "done") =>
          retrySleeps <= Len(attemptLog)

\* MAX_RETRIES=-1: returned with the error, nothing called
C29_Witness ==
    /\ cfgMaxRetries = 0 - 1
    /\ rpc = "done"
    /\ retryErr = "all processing attempts failed"
    /\ fetchLog = <<>> /\ notifyLog = <<>>

\* the PDF URLs one fetch delivers, and the fetches that delivered them
URLCount == Cardinality(URLsOf(mailbox))

FetchesOK == { i \in 1..Len(fetchLog) : fetchLog[i] = "ok" }

SendFailed(i) == attemptLog[i] = "failed to send analysis results"

\* ---------------------------------------------------------------------------
\* C30  Attempt-level retry restarts the whole pipeline: an attempt that
\* failed at the report-sending step and was not the last of MaxRetries is
\* followed by another one, which fetches again; every attempt whose fetch
\* succeeds runs the extractor on every PDF URL again, in order, and sends
\* the results of its own extractions only; so a URL is extracted once per
\* such attempt, at most MaxRetries times, and at most one report is sent
\* successfully.
C30_WholePipelineRetried ==
    /\ \A i \in 1..Len(attemptLog) :
          (SendFailed(i) /\ i < cfgMaxRetries) =>
              /\ rpc = "done" => Len(attemptLog) > i
              /\ Len(attemptLog) > i => Len(fetchLog) > i
    /\ rpc = "done" =>
          /\ Len(fetchLog) = Len(attemptLog)
          /\ Len(extractLog) = URLCount * Cardinality(FetchesOK)
    /\ \A k \in 1..Len(extractLog) :
          /\ extractLog[k].url \in URLsOf(mailbox)
          /\ \A j \in 1..(k - 1) :
                ((j - 1) \div URLCount = (k - 1) \div URLCount) =>
                    FetchedBefore(extractLog[j].url, extractLog[k].url)
    /\ \A u \in URLsOf(mailbox) :
          Cardinality({ k \in 1..Len(extractLog) : extractLog[k].url = u })
              <= (IF cfgMaxRetries > 0 THEN cfgMaxRetries ELSE 0)
    /\ \A k \in 1..Len(sendLog) :
          /\ Len(sendLog[k].results) = URLCount
          /\ \A j \in 1..URLCount :
                (sendLog[k].results[j].Error = "") <=>
                    (extractLog[(k - 1) * URLCount + j].err = "nil")
    /\ Cardinality({ k \in 1..Len(sendLog) : sendLog[k].ok }) <= 1

\* the send failed once, the second attempt extracted the same URL again,
\* with another outcome, and sent its own result
C30_Witness ==
    /\ rpc = "done" /\ retryErr = "nil"
    /\ cfgMaxRetries = 2
    /\ attemptLog = <<"failed to send analysis results", "nil">>
    /\ fetchLog = <<"ok", "ok">>
    /\ Len(extractLog) = 2
    /\ extractLog[1].url = extractLog[2].url
    /\ extractLog[1].err # "nil" /\ extractLog[2].err = "nil"
    /\ Len(sendLog) = 2 /\ ~sendLog[1].ok /\ sendLog[2].ok
    /\ sendLog[2].results[1].Error = ""

====
